---- MODULE Spec2Model ----
(***************************************************************************)
(* EDDBlink import plugin (eddblink_plug.py): the reconcilers              *)
(* importSystems / importStations / importListings / importUpgrades /      *)
(* importShips, the Change Tracker self.updated, and the orchestrator      *)
(* run().                                                                  *)
(*                                                                         *)
(* Three specifications share the reconcilers' definitions:                *)
(*   Spec        run(): option resolution, the download-or-force gates and *)
(*               the passes in program order, each pass applied to the     *)
(*               file its download produced;                               *)
(*   SpecRecord  one reconciliation pass in progress, one input record per *)
(*               step (one iteration of the pass's for loop);              *)
(*   SpecTwice   one pass run on a file and then run again on the same     *)
(*               file by a fresh plugin instance.                          *)
(***************************************************************************)
EXTENDS Integers, Sequences, FiniteSets, TLC

VARIABLES
    pc,         \* position: in run() (Spec), or the pass in progress
    options,    \* self.options: the set of option names whose value is true
    db,         \* the storage: one field per table, a function from key to row
    updated,    \* self.updated, the Change Tracker
    wlog,       \* the write statements executed so far in this run
    exc,        \* the exception that escaped, "none" while there is none
    last,       \* SpecRecord: the record handled by the latest step, and what it did
    file,       \* the input file of the pass (a sequence of records)
    passLog,    \* Spec: the passes started so far in this run, in order
    env         \* Spec: what run() read from its environment (first-run marker, inputs)

vars == <<pc, options, db, updated, wlog, exc, last, file, passLog, env>>

----------------------------------------------------------------------------
(* Bounds of the model *)

\* timestamps (updated_at, collected_at, ...) range over 1..MaxTime
MaxTime == 2
\* input files of whole passes hold at most MaxFile records
MaxFile == 2

Times == 1 .. MaxTime

----------------------------------------------------------------------------
(* Timestamps: strftime('%Y-%m-%d %H:%M:%S') of utcfromtimestamp(t), and    *)
(* timegm(strptime(s, ...)).  The text keeps the minutes since the epoch   *)
(* (date, hour and minute fields) and the seconds field.                   *)

FormatTime(t) == [min |-> t \div 60, sec |-> t % 60]

ParseTime(s) == s.min * 60 + s.sec

----------------------------------------------------------------------------
(* Tables *)

Tables == {"Category", "Item", "RareItem", "Ship", "ShipVendor", "Station",
           "System", "Upgrade", "UpgradeVendor"}

EmptyTable == [k \in {} |-> 0]

EmptyDB == [System |-> EmptyTable, Station |-> EmptyTable, Ship |-> EmptyTable,
            Upgrade |-> EmptyTable, ShipVendor |-> EmptyTable,
            UpgradeVendor |-> EmptyTable, StationItem |-> EmptyTable,
            Category |-> EmptyTable, Item |-> EmptyTable]

\* self.updated as __init__ leaves it
NoneUpdated == [t \in Tables |-> FALSE]

\* the row stored under key k, written over whatever was there
Put(t, k, row) == [x \in DOMAIN t \cup {k} |-> IF x = k THEN row ELSE t[x]]

\* the table without the keys in ks
Without(t, ks) == [x \in DOMAIN t \ ks |-> t[x]]

\* A reconciler's state while it handles records: the storage, the Change
\* Tracker, the statements written and the exception that ended it.
NewState(d, u, w) == [db |-> d, updated |-> u, wlog |-> w, exc |-> "none"]

\* self.execute of a write statement that succeeds
Written(st, op, table, key) ==
    [st EXCEPT !.wlog = @ \cup {[op |-> op, table |-> table, key |-> key]}]

Marked(st, table) == [st EXCEPT !.updated[table] = TRUE]

Raised(st, e) == [st EXCEPT !.exc = e]

----------------------------------------------------------------------------
(* importSystems: the body of the for loop, for one line of the file *)

SystemRow(system) ==
    [name |-> system.name, pos |-> system.pos,
     modified |-> FormatTime(system.updated_at)]

\* mutant: a record with the stored time counts as newer
SystemIsNewerOrSame(system, row) == system.updated_at >= ParseTime(row.modified)

SystemIsNewer(system, row) == system.updated_at > ParseTime(row.modified)

SystemRecord(st, system) ==
    IF system.id \in DOMAIN st.db.System
    THEN IF SystemIsNewer(system, st.db.System[system.id])
         THEN Marked(Written([st EXCEPT !.db.System[system.id] = SystemRow(system)],
                             "UPDATE", "System", system.id), "System")
         ELSE st
    ELSE Marked(Written([st EXCEPT !.db.System = Put(@, system.id, SystemRow(system))],
                        "INSERT", "System", system.id), "System")

----------------------------------------------------------------------------
(* importStations: the body of the for loop, for one line of the file.     *)
(* Names are sequences of words (the text split at its single spaces).     *)

YN(flag) == IF flag THEN "Y" ELSE "N"

StationRow(station) ==
    [name |-> station.name,
     system_id |-> station.system_id,
     ls_from_star |-> IF station.distance_to_star # 0
                      THEN station.distance_to_star ELSE 0,
     market |-> YN(station.has_market),
     shipyard |-> YN(station.has_shipyard),
     outfitting |-> YN(station.has_outfitting),
     modified |-> FormatTime(station.updated_at)]

\* mutant: a record with the stored time counts as newer
StationIsNewerOrSame(station, row) == station.updated_at >= ParseTime(row.modified)

StationIsNewer(station, row) == station.updated_at > ParseTime(row.modified)

\* lines 357-395: the Station row itself
StationUpsert(st, station) ==
    IF station.id \in DOMAIN st.db.Station
    THEN IF StationIsNewer(station, st.db.Station[station.id])
         THEN Marked(Written([st EXCEPT !.db.Station[station.id] = StationRow(station)],
                             "UPDATE", "Station", station.id), "Station")
         ELSE st
    ELSE Marked(Written([st EXCEPT !.db.Station = Put(@, station.id, StationRow(station))],
                        "INSERT", "Station", station.id), "Station")

\* mutant: the DELETE has no WHERE clause
VendorKeysAll(tbl, station_id) == DOMAIN tbl

\* the keys of a vendor table's rows of one station
VendorKeys(tbl, station_id) == {k \in DOMAIN tbl : k[2] = station_id}

\* "SELECT modified FROM <vendor table> WHERE station_id = ?" .fetchone(), and
\* the time it stands for: 0 when the station has no row
VendorUpdated(tbl, station_id) ==
    LET ks == VendorKeys(tbl, station_id)
    IN  IF ks = {} THEN 0
        ELSE ParseTime(tbl[CHOOSE k \in ks : \A j \in ks : k[1] <= j[1]].modified)

\* ship.replace(' MK ', ' Mk ').replace(' Mk ', ' Mk. '): a word between two others
VendorShipName(ship) ==
    [i \in 1 .. Len(ship) |->
        IF 1 < i /\ i < Len(ship) /\ ship[i] \in {"MK", "Mk"} THEN "Mk." ELSE ship[i]]

\* (SELECT Ship.ship_id FROM Ship WHERE Ship.name = ?): 0 stands for NULL
ShipIdByName(Ship, name) ==
    LET ids == {i \in DOMAIN Ship : Ship[i].name = name}
    IN  IF ids = {} THEN 0 ELSE CHOOSE i \in ids : \A j \in ids : i <= j

\* the vendor timestamp of the record: the station's own when the feed gives none
ShipyardTime(station) ==
    IF station.shipyard_updated_at = 0 THEN station.updated_at
    ELSE station.shipyard_updated_at

OutfittingTime(station) ==
    IF station.outfitting_updated_at = 0 THEN station.updated_at
    ELSE station.outfitting_updated_at

\* INSERT INTO ShipVendor raises IntegrityError: ship_id NULL, or the key is there
ShipVendorViolates(d, ship_id, station_id) ==
    ship_id = 0 \/ <<ship_id, station_id>> \in DOMAIN d.ShipVendor

\* lines 410-422: one INSERT per listed ship; an IntegrityError is not caught
RECURSIVE InsertShips(_, _, _, _)
InsertShips(st, ships, station_id, modified) ==
    IF ships = <<>> THEN st
    ELSE LET ship_id == ShipIdByName(st.db.Ship, VendorShipName(Head(ships)))
         IN  IF ShipVendorViolates(st.db, ship_id, station_id)
             THEN Raised(st, "IntegrityError")
             ELSE InsertShips(
                      Written([st EXCEPT !.db.ShipVendor =
                                   Put(@, <<ship_id, station_id>>, [modified |-> modified])],
                              "INSERT", "ShipVendor", <<ship_id, station_id>>),
                      Tail(ships), station_id, modified)

ShipVendorSelected(station, opts) == station.has_shipyard /\ "shipvend" \in opts

ShipyardIsNewer(st, station) ==
    ShipyardTime(station) > VendorUpdated(st.db.ShipVendor, station.id)

\* lines 397-423
ShipVendorPart(st, station, opts) ==
    IF ShipVendorSelected(station, opts) /\ ShipyardIsNewer(st, station)
    THEN LET deleted == Written([st EXCEPT !.db.ShipVendor =
                                     Without(@, VendorKeys(@, station.id))],
                                "DELETE", "ShipVendor", station.id)
             done == InsertShips(deleted, station.selling_ships, station.id,
                                 FormatTime(ShipyardTime(station)))
         IN  IF done.exc = "none" THEN Marked(done, "ShipVendor") ELSE done
    ELSE st

\* INSERT INTO UpgradeVendor raises IntegrityError: no such Upgrade, or the key is there
UpgradeVendorViolates(d, upgrade_id, station_id) ==
    upgrade_id \notin DOMAIN d.Upgrade
    \/ <<upgrade_id, station_id>> \in DOMAIN d.UpgradeVendor

\* lines 438-449: one INSERT per listed module; an IntegrityError is not caught
RECURSIVE InsertModules(_, _, _, _)
InsertModules(st, modules, station_id, modified) ==
    IF modules = <<>> THEN st
    ELSE LET upgrade == Head(modules)
         IN  IF UpgradeVendorViolates(st.db, upgrade, station_id)
             THEN Raised(st, "IntegrityError")
             ELSE InsertModules(
                      Written([st EXCEPT !.db.UpgradeVendor =
                                   Put(@, <<upgrade, station_id>>,
                                       [cost |-> st.db.Upgrade[upgrade].cost,
                                        modified |-> modified])],
                              "INSERT", "UpgradeVendor", <<upgrade, station_id>>),
                      Tail(modules), station_id, modified)

UpgradeVendorSelected(station, opts) == station.has_outfitting /\ "upvend" \in opts

OutfittingIsNewer(st, station) ==
    OutfittingTime(station) > VendorUpdated(st.db.UpgradeVendor, station.id)

\* lines 425-450
UpgradeVendorPart(st, station, opts) ==
    IF UpgradeVendorSelected(station, opts) /\ OutfittingIsNewer(st, station)
    THEN LET deleted == Written([st EXCEPT !.db.UpgradeVendor =
                                     Without(@, VendorKeys(@, station.id))],
                                "DELETE", "UpgradeVendor", station.id)
             done == InsertModules(deleted, station.selling_modules, station.id,
                                   FormatTime(OutfittingTime(station)))
         IN  IF done.exc = "none" THEN Marked(done, "UpgradeVendor") ELSE done
    ELSE st

\* lines 337-450.  Line 355 subscripts fetchone(): a TypeError when the
\* station's system has no row.
StationRecord(st, station, opts) ==
    IF station.system_id \notin DOMAIN st.db.System
    THEN Raised(st, "TypeError")
    ELSE LET ships == ShipVendorPart(StationUpsert(st, station), station, opts)
         IN  IF ships.exc = "none" THEN UpgradeVendorPart(ships, station, opts)
             ELSE ships

----------------------------------------------------------------------------
(* importListings: the body of the for loop, for one row of the csv file *)

LISTINGS == "listings.csv"
LIVE_LISTINGS == "listings-live.csv"

\* mutant: the row is written as one of the live feed
StationItemRowLive(listing) ==
    [modified |-> FormatTime(listing.collected_at),
     demand_price |-> listing.sell_price,
     supply_price |-> listing.buy_price,
     from_live |-> 1]

\* the row of lines 611-622 and 630-637: from_live is the literal 0
StationItemRow(listing) ==
    [modified |-> FormatTime(listing.collected_at),
     demand_price |-> listing.sell_price,
     supply_price |-> listing.buy_price,
     from_live |-> 0]

\* INSERT INTO StationItem raises IntegrityError: no such Station or Item
StationItemViolates(d, station_id, item_id) ==
    station_id \notin DOMAIN d.Station \/ item_id \notin DOMAIN d.Item

\* mutant: the file the record comes from is not looked at
ListingResetsAlways(listing, row, listings_file) ==
    listing.collected_at = ParseTime(row.modified)

\* lines 604-609: the dump file's row has the stored row's time
ListingResetsLive(listing, row, listings_file) ==
    listing.collected_at = ParseTime(row.modified) /\ listings_file = LISTINGS

ListingIsNewer(listing, row) == listing.collected_at > ParseTime(row.modified)

ListingRecord(st, listing, listings_file) ==
    LET key == <<listing.station_id, listing.commodity_id>>
    IN  IF key \in DOMAIN st.db.StationItem
        THEN LET row == st.db.StationItem[key]
                 reset == IF ListingResetsLive(listing, row, listings_file)
                          THEN Written([st EXCEPT !.db.StationItem[key].from_live = 0],
                                       "UPDATE", "StationItem", key)
                          ELSE st
             IN  IF ListingIsNewer(listing, row)
                 THEN Written([reset EXCEPT !.db.StationItem[key] = StationItemRow(listing)],
                              "UPDATE", "StationItem", key)
                 ELSE reset
        ELSE IF StationItemViolates(st.db, key[1], key[2])
             THEN st    \* IntegrityError, caught: "Error on insert."
             ELSE Written([st EXCEPT !.db.StationItem = Put(@, key, StationItemRow(listing))],
                          "INSERT", "StationItem", key)

----------------------------------------------------------------------------
(* importUpgrades, importShips, importCommodities: the body of the for     *)
(* loop for one record.  A text is its words and what separates them.      *)

NULL == -1

Text(sep, words) == [sep |-> sep, words |-> words]

\* upgrade['name'] if upgrade['name'] else upgrade['ed_symbol'].replace('_',' ')
UpgradeName(upgrade) ==
    IF upgrade.name.words # <<>> THEN upgrade.name
    ELSE Text(" ", upgrade.ed_symbol.words)

UpgradeRow(upgrade) ==
    [name |-> UpgradeName(upgrade),
     weight |-> IF upgrade.has_mass THEN upgrade.mass ELSE 0,
     cost |-> IF upgrade.price \notin {NULL, 0} THEN upgrade.price ELSE 0]

\* 'weight NUMBER NOT NULL'
UpgradeRowViolates(row) == row.weight = NULL

\* lines 171-190: INSERT; on IntegrityError (the id is there, or the row breaks
\* NOT NULL) UPDATE, which writes no row when the id is not there; on
\* IntegrityError again "Unable to insert or update"
UpgradeRecord(st, upgrade) ==
    LET row == UpgradeRow(upgrade)
        there == upgrade.id \in DOMAIN st.db.Upgrade
    IN  IF ~there /\ ~UpgradeRowViolates(row)
        THEN Written([st EXCEPT !.db.Upgrade = Put(@, upgrade.id, row)],
                     "INSERT", "Upgrade", upgrade.id)
        ELSE IF there /\ UpgradeRowViolates(row)
             THEN st
             ELSE Written([st EXCEPT !.db.Upgrade =
                               IF there THEN [@ EXCEPT ![upgrade.id] = row] ELSE @],
                          "UPDATE", "Upgrade", upgrade.id)

\* name.replace('Mk ', 'Mk. '), then the three names that lack their mark
ShipName(name) ==
    LET marked == [i \in 1 .. Len(name) |->
                      IF i < Len(name) /\ name[i] = "Mk" THEN "Mk." ELSE name[i]]
    IN  CASE marked = <<"Eagle">> -> <<"Eagle", "Mk.", "II">>
          [] marked = <<"Sidewinder">> -> <<"Sidewinder", "Mk.", "I">>
          [] marked = <<"Viper">> -> <<"Viper", "Mk.", "III">>
          [] OTHER -> marked

ShipRow(ship) ==
    [name |-> ShipName(ship.name), cost |-> ship.retailCost, fdev_id |-> ship.edID]

\* mutant: a ship whose id is stored is left as it is
ShipInsertOnly(st, ship) ==
    IF ship.eddbID \notin DOMAIN st.db.Ship
    THEN Written([st EXCEPT !.db.Ship = Put(@, ship.eddbID, ShipRow(ship))],
                 "INSERT", "Ship", ship.eddbID)
    ELSE st

\* lines 207-234
ShipRecord(st, ship) ==
    IF ship.eddbID \notin DOMAIN st.db.Ship
    THEN Written([st EXCEPT !.db.Ship = Put(@, ship.eddbID, ShipRow(ship))],
                 "INSERT", "Ship", ship.eddbID)
    ELSE Written([st EXCEPT !.db.Ship[ship.eddbID] = ShipRow(ship)],
                 "UPDATE", "Ship", ship.eddbID)

\* lines 468-485: the record's category
CategoryUpsert(st, commodity) ==
    LET id == commodity.category.id
        row == [name |-> commodity.category.name]
    IN  IF id \notin DOMAIN st.db.Category
        THEN Written([st EXCEPT !.db.Category = Put(@, id, row)], "INSERT", "Category", id)
        ELSE Written([st EXCEPT !.db.Category[id] = row], "UPDATE", "Category", id)

\* INSERT or UPDATE of an Item raises IntegrityError: no such Category
ItemViolates(d, category_id) == category_id \notin DOMAIN d.Category

ItemRow(commodity, ui_order) ==
    [name |-> commodity.name, category_id |-> commodity.category_id,
     avg_price |-> commodity.average_price, fdev_id |-> commodity.ed_id,
     ui_order |-> ui_order]

\* lines 487-510: the item, unless it is rare: INSERT; on IntegrityError (the id
\* is there, or no such category) UPDATE, which writes no row when the id is not
\* there; on IntegrityError again "Unable to insert or update".  ui_order is not
\* written: a new row has none (0), an updated row keeps its own.
ItemUpsert(st, commodity) ==
    LET id == commodity.id
        there == id \in DOMAIN st.db.Item
        bad == ItemViolates(st.db, commodity.category_id)
    IN  IF commodity.is_rare THEN st
        ELSE IF ~there /\ ~bad
        THEN Written([st EXCEPT !.db.Item = Put(@, id, ItemRow(commodity, 0))],
                     "INSERT", "Item", id)
        ELSE IF there /\ bad
             THEN st
             ELSE Written([st EXCEPT !.db.Item =
                               IF there
                               THEN [@ EXCEPT ![id] = ItemRow(commodity, @.ui_order)]
                               ELSE @],
                          "UPDATE", "Item", id)

CommodityRecord(st, commodity) == ItemUpsert(CategoryUpsert(st, commodity), commodity)

\* the item names the inputs use, in the order ORDER BY name gives them
ItemNames == <<"Beryllium", "Zinc">>

NameRank(name) == CHOOSE i \in 1 .. Len(ItemNames) : ItemNames[i] = name

\* ORDER BY category_id, name (then the row's place in the table)
ItemBefore(Item, a, b) ==
    \/ Item[a].category_id < Item[b].category_id
    \/ /\ Item[a].category_id = Item[b].category_id
       /\ \/ NameRank(Item[a].name) < NameRank(Item[b].name)
          \/ NameRank(Item[a].name) = NameRank(Item[b].name) /\ a < b

\* the item ids as the SELECT of lines 516-520 returns them
RECURSIVE SortedItems(_, _)
SortedItems(Item, ids) ==
    IF ids = {} THEN <<>>
    ELSE LET first == CHOOSE a \in ids : \A b \in ids \ {a} : ItemBefore(Item, a, b)
         IN  <<first>> \o SortedItems(Item, ids \ {first})

\* lines 521-533: cat_id and ui_order run along the sorted rows
RECURSIVE UiOrdered(_, _, _, _)
UiOrdered(st, rows, cat_id, ui_order) ==
    IF rows = <<>> THEN st
    ELSE LET id == Head(rows)
             cat == st.db.Item[id].category_id
             order == IF cat # cat_id THEN 1 ELSE ui_order + 1
         IN  UiOrdered(Written([st EXCEPT !.db.Item[id].ui_order = order],
                               "UPDATE", "Item", id),
                       Tail(rows), cat, order)

----------------------------------------------------------------------------
(* The passes: each import function applied to a whole file *)

RECURSIVE SystemsFrom(_, _)
SystemsFrom(st, f) ==
    IF f = <<>> THEN st ELSE SystemsFrom(SystemRecord(st, Head(f)), Tail(f))

importSystems(st, f) == SystemsFrom(st, f)

RECURSIVE StationsFrom(_, _, _)
StationsFrom(st, f, opts) ==
    IF f = <<>> \/ st.exc # "none" THEN st
    ELSE StationsFrom(StationRecord(st, Head(f), opts), Tail(f), opts)

importStations(st, f, opts) == StationsFrom(st, f, opts)

RECURSIVE ListingsFrom(_, _, _)
ListingsFrom(st, f, listings_file) ==
    IF f = <<>> THEN st
    ELSE ListingsFrom(ListingRecord(st, Head(f), listings_file), Tail(f), listings_file)

importListings(st, f, listings_file) == ListingsFrom(st, f, listings_file)

RECURSIVE UpgradesFrom(_, _)
UpgradesFrom(st, f) ==
    IF f = <<>> THEN st ELSE UpgradesFrom(UpgradeRecord(st, Head(f)), Tail(f))

importUpgrades(st, f) == Marked(UpgradesFrom(st, f), "Upgrade")

RECURSIVE ShipsFrom(_, _)
ShipsFrom(st, f) ==
    IF f = <<>> THEN st ELSE ShipsFrom(ShipRecord(st, Head(f)), Tail(f))

importShips(st, f) == Marked(ShipsFrom(st, f), "Ship")

RECURSIVE CommoditiesFrom(_, _)
CommoditiesFrom(st, f) ==
    IF f = <<>> THEN st ELSE CommoditiesFrom(CommodityRecord(st, Head(f)), Tail(f))

importCommodities(st, f) ==
    LET read == CommoditiesFrom(st, f)
    IN  Marked(Marked(UiOrdered(read, SortedItems(read.db.Item, DOMAIN read.db.Item), 0, 1),
                      "Category"), "Item")

----------------------------------------------------------------------------
(* Inputs: the records the files may hold, and the storage passes start on *)

SystemRecords ==
    [id : {1, 2}, name : {"Sol", "Alt"}, pos : {<<0, 0, 0>>}, updated_at : Times]

PYTHON == <<"Python">>
VIPER == <<"Viper", "MK", "IV">>
UNKNOWN == <<"Mamba">>

ShipLists == {<<>>, <<PYTHON>>, <<PYTHON, VIPER>>, <<UNKNOWN>>, <<PYTHON, PYTHON>>}

ModuleLists == {<<>>, <<1>>, <<1, 2>>, <<9>>}

StationBase ==
    [id : {1}, name : {"Daedalus"}, system_id : {1}, distance_to_star : {0},
     has_market : {TRUE}, updated_at : Times]

\* a station record: the base fields and the shipyard and outfitting fields
StationOf(base, yard, outfit) ==
    [id |-> base.id, name |-> base.name, system_id |-> base.system_id,
     distance_to_star |-> base.distance_to_star, has_market |-> base.has_market,
     updated_at |-> base.updated_at,
     has_shipyard |-> yard.has, shipyard_updated_at |-> yard.at,
     selling_ships |-> yard.selling,
     has_outfitting |-> outfit.has, outfitting_updated_at |-> outfit.at,
     selling_modules |-> outfit.selling]

NoVendor == [has |-> FALSE, at |-> 0, selling |-> <<>>]

\* a record without the facility lists nothing
Shipyards ==
    {y \in [has : BOOLEAN, at : 0 .. MaxTime, selling : ShipLists] :
        y.has \/ y.selling = <<>>}

Outfitters ==
    {o \in [has : BOOLEAN, at : 0 .. MaxTime, selling : ModuleLists] :
        o.has \/ o.selling = <<>>}

\* records with a shipyard, records with an outfitter, and records with both
StationRecords ==
    {StationOf(b, y, NoVendor) : b \in StationBase, y \in Shipyards}
    \cup {StationOf(b, NoVendor, o) : b \in StationBase, o \in Outfitters}
    \cup {StationOf(b, [has |-> TRUE, at |-> t, selling |-> <<PYTHON>>],
                       [has |-> TRUE, at |-> t, selling |-> <<1>>]) :
              b \in StationBase, t \in Times}

ListingRecords ==
    [station_id : {1, 3}, commodity_id : {1}, collected_at : Times,
     sell_price : {10, 20}, buy_price : {0}]

UpgradeRecords ==
    {[id |-> i, name |-> n, ed_symbol |-> Text("_", <<"Int", "Shield">>),
      has_mass |-> m[1], mass |-> m[2], price |-> c] :
        i \in {1, 2}, n \in {Text(" ", <<>>), Text(" ", <<"Shield">>)},
        m \in {<<FALSE, 0>>, <<TRUE, NULL>>, <<TRUE, 2>>}, c \in {NULL, 7}}

ShipRecords ==
    [eddbID : {1, 2}, name : {<<"Python">>, <<"Viper", "Mk", "IV">>, <<"Eagle">>},
     retailCost : {50}, edID : {101}]

CommodityRecords ==
    [id : {1, 2}, name : {"Beryllium", "Zinc"},
     category : {[id |-> 0, name |-> "Chemicals"], [id |-> 5, name |-> "Metals"]},
     category_id : {0, 5}, is_rare : BOOLEAN, average_price : {3}, ed_id : {201}]

\* the station records of whole files: the feed's time given or not, a listing
\* of no, one or two known ships or modules
FileStationRecords ==
    {StationOf(b, y, NoVendor) : b \in StationBase,
         y \in [has : {TRUE}, at : 0 .. MaxTime, selling : {<<>>, <<PYTHON>>, <<PYTHON, VIPER>>}]}
    \cup {StationOf(b, NoVendor, o) : b \in StationBase,
         o \in [has : {TRUE}, at : Times, selling : {<<>>, <<1, 2>>}]}

\* the files of at most MaxFile records
FilesOf(records) == UNION {[1 .. n -> records] : n \in 0 .. MaxFile}

SystemFixture == 1 :> SystemRow([name |-> "Sol", pos |-> <<0, 0, 0>>, updated_at |-> 1])

ShipFixture ==
    1 :> [name |-> <<"Python">>, cost |-> 50, fdev_id |-> 101]
    @@ 2 :> [name |-> <<"Viper", "Mk.", "IV">>, cost |-> 40, fdev_id |-> 102]

UpgradeFixture ==
    1 :> [name |-> "Shield", weight |-> 2, cost |-> 7]
    @@ 2 :> [name |-> "Laser", weight |-> 0, cost |-> 9]

\* station 2, which no input record names, with a ship and a module on sale
BystanderStation ==
    2 :> StationRow(StationOf([id |-> 2, name |-> "Galileo", system_id |-> 1,
                               distance_to_star |-> 0, has_market |-> TRUE,
                               updated_at |-> 1],
                              [has |-> TRUE, at |-> 1, selling |-> <<PYTHON>>],
                              [has |-> TRUE, at |-> 1, selling |-> <<1>>]))

\* the storage an importStations pass of the model starts on
StationsDB(System) ==
    [EmptyDB EXCEPT !.System = System, !.Ship = ShipFixture, !.Upgrade = UpgradeFixture,
                    !.Station = BystanderStation,
                    !.ShipVendor = <<1, 2>> :> [modified |-> FormatTime(1)],
                    !.UpgradeVendor = <<1, 2>> :> [cost |-> 7, modified |-> FormatTime(1)]]

ItemFixture ==
    1 :> [name |-> "Zinc", category_id |-> 5, avg_price |-> 3, fdev_id |-> 201,
          ui_order |-> 1]

\* a StationItem row as the listener of the live feed stores it
LiveRow(t) ==
    [modified |-> FormatTime(t), demand_price |-> 10, supply_price |-> 0, from_live |-> 1]

\* the storage an importListings pass of the model starts on
ListingsDB(StationItem) ==
    [EmptyDB EXCEPT !.System = SystemFixture,
                    !.Station = 1 :> StationRow(StationOf(
                        [id |-> 1, name |-> "Daedalus", system_id |-> 1,
                         distance_to_star |-> 0, has_market |-> TRUE, updated_at |-> 1],
                        NoVendor, NoVendor)),
                    !.Category = 5 :> [name |-> "Metals"],
                    !.Item = ItemFixture,
                    !.StationItem = StationItem]

----------------------------------------------------------------------------
(* SpecRecord: one pass in progress, one record per step.  wlog holds the   *)
(* statements of the latest step.                                          *)

NoLast == [kind |-> "none"]

InitRecord ==
    /\ pc \in {"importSystems", "importStations", "importListings"}
    /\ options \in IF pc = "importStations" THEN SUBSET {"shipvend", "upvend"} ELSE {{}}
    /\ db \in CASE pc = "importSystems" -> {EmptyDB}
                [] pc = "importStations" -> {StationsDB(SystemFixture), StationsDB(EmptyTable)}
                [] OTHER -> {ListingsDB(EmptyTable)}
                            \cup {ListingsDB(<<1, 1>> :> LiveRow(t)) : t \in Times}
    /\ env \in IF pc = "importListings"
               THEN {[listings_file |-> f] : f \in {LISTINGS, LIVE_LISTINGS}}
               ELSE {[listings_file |-> "none"]}
    /\ updated = NoneUpdated
    /\ wlog = {}
    /\ exc = "none"
    /\ last = NoLast
    /\ file = <<>>
    /\ passLog = <<>>

\* how a record's time compares with the time of the row stored under its key
Cmp(tbl, key, t) ==
    IF key \notin DOMAIN tbl THEN "absent"
    ELSE LET was == ParseTime(tbl[key].modified)
         IN  IF t < was THEN "older" ELSE IF t = was THEN "equal" ELSE "newer"

\* the step's effect: the reconciler's state st after the record
Stepped(st, kind, rec, cmp) ==
    /\ db' = st.db
    /\ updated' = st.updated
    /\ wlog' = st.wlog
    /\ exc' = st.exc
    /\ last' = [kind |-> kind, rec |-> rec, cmp |-> cmp]
    /\ UNCHANGED <<pc, options, file, passLog, env>>

SystemStep ==
    /\ pc = "importSystems" /\ exc = "none"
    /\ \E system \in SystemRecords :
           Stepped(SystemRecord(NewState(db, updated, {}), system), "System", system,
                   Cmp(db.System, system.id, system.updated_at))

StationStep ==
    /\ pc = "importStations" /\ exc = "none"
    /\ \E station \in StationRecords :
           Stepped(StationRecord(NewState(db, updated, {}), station, options),
                   "Station", station,
                   Cmp(db.Station, station.id, station.updated_at))

ListingStep ==
    /\ pc = "importListings" /\ exc = "none"
    /\ \E listing \in ListingRecords :
           Stepped(ListingRecord(NewState(db, updated, {}), listing, env.listings_file),
                   "Listing", listing,
                   Cmp(db.StationItem, <<listing.station_id, listing.commodity_id>>,
                       listing.collected_at))

NextRecord == SystemStep \/ StationStep \/ ListingStep

SpecRecord == InitRecord /\ [][NextRecord]_vars

----------------------------------------------------------------------------
(* SpecTwice: a pass over a file, and the same pass over the same file      *)
(* again, by the plugin instance of a later run (self.updated as __init__  *)
(* leaves it).  wlog holds the statements of the latest pass.              *)

PassKinds == {"importUpgrades", "importShips", "importSystems", "importStations",
              "importCommodities", "importListings"}

RecordsOf(kind) ==
    CASE kind = "importUpgrades" -> UpgradeRecords
      [] kind = "importShips" -> ShipRecords
      [] kind = "importSystems" -> SystemRecords
      [] kind = "importStations" -> FileStationRecords
      [] kind = "importCommodities" -> CommodityRecords
      [] OTHER -> ListingRecords

\* the pass of the kind on file f
ImportPass(kind, st, f, opts, listings_file) ==
    CASE kind = "importUpgrades" -> importUpgrades(st, f)
      [] kind = "importShips" -> importShips(st, f)
      [] kind = "importSystems" -> importSystems(st, f)
      [] kind = "importStations" -> importStations(st, f, opts)
      [] kind = "importCommodities" -> importCommodities(st, f)
      [] OTHER -> importListings(st, f, listings_file)

InitTwice ==
    /\ pc = "first"
    /\ \E kind \in PassKinds :
          /\ file \in FilesOf(RecordsOf(kind))
          /\ env \in {[kind |-> kind, listings_file |-> l] :
                        l \in IF kind = "importListings" THEN {LISTINGS, LIVE_LISTINGS}
                              ELSE {"none"}}
          /\ options \in IF kind = "importStations" THEN {{}, {"shipvend", "upvend"}}
                         ELSE {{}}
          /\ db \in CASE kind = "importStations" -> {StationsDB(SystemFixture)}
                      [] kind = "importListings" ->
                             {ListingsDB(EmptyTable)}
                             \cup {ListingsDB(<<1, 1>> :> LiveRow(t)) : t \in Times}
                      [] kind = "importCommodities" -> {EmptyDB, ListingsDB(EmptyTable)}
                      [] kind \in {"importUpgrades", "importShips"} ->
                             {EmptyDB, StationsDB(SystemFixture)}
                      [] OTHER -> {EmptyDB}
    /\ updated = NoneUpdated
    /\ wlog = {}
    /\ exc = "none"
    /\ last = NoLast
    /\ passLog = <<>>

Passed(st, next) ==
    /\ db' = st.db
    /\ updated' = st.updated
    /\ wlog' = st.wlog
    /\ exc' = st.exc
    /\ pc' = IF st.exc = "none" THEN next ELSE "aborted"
    /\ UNCHANGED <<options, last, file, passLog, env>>

FirstPass ==
    /\ pc = "first"
    /\ Passed(ImportPass(env.kind, NewState(db, NoneUpdated, {}), file, options,
                         env.listings_file), "second")

SecondPass ==
    /\ pc = "second"
    /\ Passed(ImportPass(env.kind, NewState(db, NoneUpdated, {}), file, options,
                         env.listings_file), "done")

NextTwice == FirstPass \/ SecondPass

SpecTwice == InitTwice /\ [][NextTwice]_vars

----------------------------------------------------------------------------
(* Spec: run().  One step per statement group of run(), in program order;   *)
(* a gated pass (download-or-force, then the import function) is one step. *)
(* wlog holds the statements of the whole run.                             *)

COMMODITIES == "commodities.json"
SYSTEMS == "systems_populated.jsonl"
STATIONS == "stations.jsonl"
UPGRADES == "modules.json"
SHIPS_URL == "https://raw.githubusercontent.com/EDCD/coriolis-data/master/dist/index.json"

\* the keys of pluginOptions
OptionNames ==
    {"item", "system", "station", "ship", "shipvend", "upgrade", "upvend", "listings",
     "all", "clean", "skipvend", "force", "fallback"}

\* a run is given at most MaxOpts options
MaxOpts == 2

\* the dump behind urlTail as it stands at time t
DumpFile(urlTail, t) ==
    CASE urlTail = UPGRADES ->
             <<[id |-> 1, name |-> Text(" ", <<"Shield">>),
                ed_symbol |-> Text("_", <<"Int", "Shield">>),
                has_mass |-> TRUE, mass |-> 2, price |-> 7]>>
      [] urlTail = SHIPS_URL ->
             <<[eddbID |-> 1, name |-> <<"Python">>, retailCost |-> 50, edID |-> 101]>>
             \o (IF t > 1 THEN <<[eddbID |-> 2, name |-> <<"Viper", "Mk", "IV">>,
                                  retailCost |-> 50, edID |-> 101]>>
                 ELSE <<>>)
      [] urlTail = SYSTEMS ->
             <<[id |-> 1, name |-> "Sol", pos |-> <<0, 0, 0>>, updated_at |-> t]>>
      [] urlTail = STATIONS ->
             <<StationOf([id |-> 1, name |-> "Daedalus", system_id |-> 1,
                          distance_to_star |-> 0, has_market |-> TRUE, updated_at |-> t],
                         [has |-> TRUE, at |-> t,
                          selling |-> IF t > 1 THEN <<PYTHON, VIPER>> ELSE <<PYTHON>>],
                         [has |-> TRUE, at |-> t, selling |-> <<1>>])>>
      [] urlTail = COMMODITIES ->
             <<[id |-> 1, name |-> "Zinc", category |-> [id |-> 5, name |-> "Metals"],
                category_id |-> 5, is_rare |-> FALSE, average_price |-> 3,
                ed_id |-> 201]>>
      [] urlTail = LISTINGS ->
             <<[station_id |-> 1, commodity_id |-> 1, collected_at |-> t,
                sell_price |-> 10, buy_price |-> 0]>>
      [] OTHER ->
             <<[station_id |-> 1, commodity_id |-> 1, collected_at |-> t,
                sell_price |-> 20, buy_price |-> 0]>>

UrlTails == {UPGRADES, SHIPS_URL, SYSTEMS, STATIONS, COMMODITIES, LISTINGS, LIVE_LISTINGS}

\* self.dataPath: no file, and the files a run at time 1 left
NoLocal == [u \in UrlTails |-> [exists |-> FALSE, mtime |-> 0, content |-> <<>>]]
OldLocal == [u \in UrlTails |-> [exists |-> TRUE, mtime |-> 1, content |-> DumpFile(u, 1)]]

\* the storage a run at time 1 with every target selected left
OldDB ==
    LET a == importUpgrades(NewState(EmptyDB, NoneUpdated, {}), DumpFile(UPGRADES, 1))
        b == importShips(a, DumpFile(SHIPS_URL, 1))
        c == importSystems(b, DumpFile(SYSTEMS, 1))
        d == importStations(c, DumpFile(STATIONS, 1), {"shipvend", "upvend"})
        e == importCommodities(d, DumpFile(COMMODITIES, 1))
        f == importListings(e, DumpFile(LISTINGS, 1), LISTINGS)
    IN  f.db

\* time.time() when a download is written: later than every Last-Modified
Now == MaxTime + 1

\* the tables whose csv file the clean path removes (lines 727-741)
CleanedTables ==
    {"Category", "Item", "Ship", "ShipVendor", "Station", "System", "Upgrade",
     "UpgradeVendor"}

\* the storage reports the busy/locked condition at most MaxBusy times in a row
MaxBusy == 2

\* getOption(name) is true of the names in the set.  env: the options as given,
\* the AUTOINCREMENT marker of the schema file, the files of self.dataPath, what
\* each downloadFile call reported, the csv exports and the prices file on
\* disk, the exporter's invocations and the steps taken, in order, the rows the
\* database file holds (db is the connection's view, with the open
\* transaction), and the busy reports the current retry loop has met.
Init ==
    /\ pc = "start"
    /\ options \in {o \in SUBSET OptionNames : Cardinality(o) <= MaxOpts}
    /\ \E marker \in BOOLEAN, had \in BOOLEAN :
          /\ db = IF had THEN OldDB ELSE EmptyDB
          /\ env = [given |-> options,
                    marker |-> marker,
                    local |-> IF had THEN OldLocal ELSE NoLocal,
                    gate |-> [u \in UrlTails |-> "unasked"],
                    exported |-> IF had THEN Tables ELSE {},
                    prices |-> had,
                    exports |-> <<>>,
                    trace |-> <<>>,
                    committed |-> db,
                    busy |-> 0]
    /\ updated = NoneUpdated
    /\ wlog = {}
    /\ exc = "none"
    /\ last = NoLast
    /\ file = <<>>
    /\ passLog = <<>>

\* the statement groups of run() in program order
Order ==
    <<"start", "schema", "clean", "load", "resolve",
      "upgrade", "ship", "system", "station", "item",
      "commit", "regenerate", "listings", "live", "commit2", "close", "done">>

Position(order, p) == CHOOSE i \in 1 .. Len(order) : order[i] = p

\* mutant: the Ship step ahead of the Upgrade step
AfterShipFirst(p) ==
    LET order == <<"start", "schema", "clean", "load", "resolve",
                   "ship", "upgrade", "system", "station", "item",
                   "commit", "regenerate", "listings", "live", "commit2", "close",
                   "done">>
    IN  order[Position(order, p) + 1]

\* mutant: the listings steps ahead of the commit and of regenerate
AfterListingsFirst(p) ==
    LET order == <<"start", "schema", "clean", "load", "resolve",
                   "upgrade", "ship", "system", "station", "item",
                   "listings", "live", "commit", "regenerate", "commit2", "close",
                   "done">>
    IN  order[Position(order, p) + 1]

\* mutant: the handle closed and the prices file requested ahead of the final commit
AfterCloseFirst(p) ==
    LET order == <<"start", "schema", "clean", "load", "resolve",
                   "upgrade", "ship", "system", "station", "item",
                   "commit", "regenerate", "listings", "live", "close", "commit2",
                   "done">>
    IN  order[Position(order, p) + 1]

\* mutant: the Station step ahead of the System step
AfterStationFirst(p) ==
    LET order == <<"start", "schema", "clean", "load", "resolve",
                   "upgrade", "ship", "station", "system", "item",
                   "commit", "regenerate", "listings", "live", "commit2", "close",
                   "done">>
    IN  order[Position(order, p) + 1]

\* the statement group that follows p
After(p) == Order[Position(Order, p) + 1]

\* lines 658-664
DefaultListings(opts) ==
    LET default == \E option \in opts : option \notin {"force", "fallback", "skipvend"}
    IN  IF default THEN opts \cup {"listings"} ELSE opts

Start ==
    /\ pc = "start"
    /\ options' = DefaultListings(options)
    /\ pc' = After(pc)
    /\ UNCHANGED <<db, updated, wlog, exc, last, file, passLog, env>>

\* lines 682-721: firstRun is the AUTOINCREMENT marker in TradeDangerous.sql; the
\* file is written back without it
Schema ==
    /\ pc = "schema"
    /\ options' = IF env.marker THEN options \cup {"clean"} ELSE options
    /\ env' = [env EXCEPT !.marker = FALSE]
    /\ pc' = After(pc)
    /\ UNCHANGED <<db, updated, wlog, exc, last, file, passLog>>

\* lines 724-771: the csv files, the database and the prices file are removed
\* and the cache is rebuilt from nothing
Clean ==
    /\ pc = "clean"
    /\ IF "clean" \in options
       THEN /\ db' = EmptyDB
            /\ env' = [env EXCEPT !.exported = @ \ CleanedTables, !.prices = FALSE,
                                  !.committed = EmptyDB]
            /\ options' = options \cup {"all", "force"}
       ELSE UNCHANGED <<db, env, options>>
    /\ pc' = After(pc)
    /\ UNCHANGED <<updated, wlog, exc, last, file, passLog>>

\* lines 773-782: "while not success: try: tdb.load(...) except
\* sqlite3.OperationalError: sleep(1)"
Load ==
    /\ pc = "load"
    /\ \/ /\ env.busy < MaxBusy
          /\ env' = [env EXCEPT !.busy = @ + 1]
          /\ UNCHANGED pc
       \/ /\ env' = [env EXCEPT !.busy = 0]
          /\ pc' = After(pc)
    /\ UNCHANGED <<options, db, updated, wlog, exc, last, file, passLog>>

\* one "if self.getOption(name): self.options[...] = True" of lines 785-808
Implied(opts, name, more) == IF name \in opts THEN opts \cup more ELSE opts

\* mutant: station implies system ahead of the options that imply station
ResolvedStationFirst(opts) ==
    LET a == Implied(opts, "station", {"system"})
        b == Implied(a, "listings", {"item", "station"})
        c == Implied(b, "shipvend", {"ship", "station"})
        d == Implied(c, "upvend", {"upgrade", "station"})
        e == Implied(d, "all", {"item", "ship", "shipvend", "station", "system",
                                "upgrade", "upvend", "listings"})
    IN  IF "skipvend" \in e THEN e \ {"shipvend", "upvend"} ELSE e

\* mutant: skipvend handled ahead of all
ResolvedSkipvendFirst(opts) ==
    LET a == Implied(opts, "listings", {"item", "station"})
        b == Implied(a, "shipvend", {"ship", "station"})
        c == Implied(b, "upvend", {"upgrade", "station"})
        d == Implied(c, "station", {"system"})
        e == IF "skipvend" \in d THEN d \ {"shipvend", "upvend"} ELSE d
    IN  Implied(e, "all", {"item", "ship", "shipvend", "station", "system",
                           "upgrade", "upvend", "listings"})

\* lines 784-812
Resolved(opts) ==
    LET a == Implied(opts, "listings", {"item", "station"})
        b == Implied(a, "shipvend", {"ship", "station"})
        c == Implied(b, "upvend", {"upgrade", "station"})
        d == Implied(c, "station", {"system"})
        e == Implied(d, "all", {"item", "ship", "shipvend", "station", "system",
                                "upgrade", "upvend", "listings"})
    IN  IF "skipvend" \in e THEN e \ {"shipvend", "upvend"} ELSE e

Resolve ==
    /\ pc = "resolve"
    /\ options' = Resolved(options)
    /\ pc' = After(pc)
    /\ UNCHANGED <<db, updated, wlog, exc, last, file, passLog, env>>

\* transfers.download(url, self.dataPath / path)
Downloaded(local, urlTail, dumpModded) ==
    [local EXCEPT ![urlTail] = [exists |-> TRUE, mtime |-> Now,
                                content |-> DumpFile(urlTail, dumpModded)]]

\* mutant: a failed probe of the mirror leaves the options as they are
NotEscalated(opts, reachable) == opts

\* lines 111-116: a failed probe of the mirror sets the fallback option
Escalated(opts, reachable) == IF reachable THEN opts ELSE opts \cup {"fallback"}

\* mutant: the ship index is compared with the local copy like any other file
ComparedAlways(urlTail) == TRUE

\* line 149: "and url != SHIPS_URL", the local copy of the ship index never counts
Compared(urlTail) == urlTail # SHIPS_URL

\* mutant: a local copy as old as the dump is not current
LocalIsNewer(copy, dumpModded) == copy.exists /\ copy.mtime > dumpModded

\* lines 147-149: there is a local copy and it is not older than the dump
LocalIsCurrent(copy, dumpModded) == copy.exists /\ copy.mtime >= dumpModded

\* downloadFile(urlTail, path): what it returns or raises, the url it settled
\* on, and self.options and the local files as it leaves them.
\* reachable: urlopen of the mirror succeeds (line 112); served: the url it
\* settled on answers (line 137, transfers.download); dumpModded: the
\* Last-Modified of the dump.
downloadFile(urlTail, opts, local, reachable, served, dumpModded) ==
    LET o == IF urlTail = SHIPS_URL THEN opts ELSE Escalated(opts, reachable)
        url == CASE urlTail = SHIPS_URL -> "SHIPS_URL"
                 [] "fallback" \in o -> "FALLBACK_URL"
                 [] OTHER -> "BASE_URL"
        left(result, e, u, files) ==
            [result |-> result, exc |-> e, url |-> u, options |-> o, local |-> files]
    IN  IF urlTail = LIVE_LISTINGS /\ "fallback" \in o
        THEN left(FALSE, "none", "none", local)
        ELSE IF ~served
        THEN left(FALSE, "URLError", url, local)
        ELSE IF Compared(urlTail) /\ LocalIsCurrent(local[urlTail], dumpModded)
        THEN left(FALSE, "none", url, local)
        ELSE left(TRUE, "none", url, Downloaded(local, urlTail, dumpModded))

\* the import function that reads the file behind urlTail
PassOf(urlTail) ==
    CASE urlTail = UPGRADES -> "importUpgrades"
      [] urlTail = SHIPS_URL -> "importShips"
      [] urlTail = SYSTEMS -> "importSystems"
      [] urlTail = STATIONS -> "importStations"
      [] urlTail = COMMODITIES -> "importCommodities"
      [] OTHER -> "importListings"

\* mutant: the import function is called whatever the download reported
RunsAlways(result, opts) == TRUE

\* mutant: force is not looked at
RunsOnUpdateOnly(result, opts) == result

\* "self.downloadFile(...) or self.getOption('force')"
Runs(result, opts) == result \/ "force" \in opts

\* "if self.getOption(name):
\*      if self.downloadFile(urlTail, path) or self.getOption('force'):
\*          self.import...()"
\* An exception of downloadFile or of the import function ends run().  A
\* listings file that does not exist is read as a file of no rows (lines
\* 566-568).  decodes: json.load, json.loads or the int() conversions of the
\* csv fields accept the file; if not, the import function raises ValueError
\* before its first statement.
Gated(name, urlTail) ==
    IF name \notin options
    THEN /\ pc' = After(pc)
         /\ UNCHANGED <<options, db, updated, wlog, exc, last, file, passLog, env>>
    ELSE \E reachable \in BOOLEAN, served \in BOOLEAN, decodes \in BOOLEAN,
            dumpModded \in Times :
            LET got == downloadFile(urlTail, options, env.local, reachable, served,
                                    dumpModded)
                runs == got.exc = "none" /\ Runs(got.result, got.options)
                read == got.local[urlTail].content
                st == IF ~runs THEN NewState(db, updated, wlog)
                      ELSE IF got.local[urlTail].exists /\ ~decodes
                      THEN Raised(NewState(db, updated, wlog), "ValueError")
                      ELSE ImportPass(PassOf(urlTail), NewState(db, updated, wlog),
                                      read, got.options, urlTail)
                raised == IF got.exc # "none" THEN got.exc ELSE st.exc
            IN  /\ options' = got.options
                /\ env' = [env EXCEPT !.local = got.local,
                                      !.gate[urlTail] =
                                          CASE got.exc # "none" -> "raised"
                                            [] got.result -> "updated"
                                            [] OTHER -> "not updated",
                                      !.trace = IF runs THEN Append(@, urlTail) ELSE @]
                /\ db' = st.db
                /\ updated' = st.updated
                /\ wlog' = st.wlog
                /\ exc' = raised
                /\ file' = IF runs THEN read ELSE file
                /\ passLog' = IF runs THEN Append(passLog, urlTail) ELSE passLog
                /\ UNCHANGED last
                /\ pc' = IF raised = "none" THEN After(pc) ELSE "crashed"

\* lines 815-817
RunUpgrades == pc = "upgrade" /\ Gated("upgrade", UPGRADES)

\* lines 819-821
RunShips == pc = "ship" /\ Gated("ship", SHIPS_URL)

\* lines 823-825
RunSystems == pc = "system" /\ Gated("system", SYSTEMS)

\* lines 827-829
RunStations == pc = "station" /\ Gated("station", STATIONS)

\* lines 831-833
RunCommodities == pc = "item" /\ Gated("item", COMMODITIES)

\* lines 835-842: "while not success: try: tdb.getDB().commit() except
\* sqlite3.OperationalError: sleep(1)"; the first commit of the run
Commit ==
    /\ pc = "commit"
    /\ \/ /\ env.busy < MaxBusy
          /\ env' = [env EXCEPT !.busy = @ + 1]
          /\ UNCHANGED pc
       \/ /\ env' = [env EXCEPT !.committed = db, !.busy = 0,
                                !.trace = Append(@, "commit")]
          /\ pc' = After(pc)
    /\ UNCHANGED <<options, db, updated, wlog, exc, last, file, passLog>>

\* the tables in the order of the loop of regenerate()
TableOrder ==
    <<"Category", "Item", "RareItem", "Ship", "ShipVendor", "Station", "System",
      "Upgrade", "UpgradeVendor">>

\* mutant: the exporter is invoked for every table of the loop
ExportedAll(flags, tables) == tables

\* lines 541-556: the exporter's invocations, one for each flagged table
RECURSIVE Exported(_, _)
Exported(flags, tables) ==
    IF tables = <<>> THEN <<>>
    ELSE (IF flags[Head(tables)] THEN <<Head(tables)>> ELSE <<>>)
         \o Exported(flags, Tail(tables))

\* line 845, lines 540-556: every flagged table is exported to its csv file
Regenerate ==
    /\ pc = "regenerate"
    /\ env' = [env EXCEPT !.exported = @ \cup {t \in Tables : updated[t]},
                          !.exports = @ \o Exported(updated, TableOrder),
                          !.trace = Append(@, "regenerate")]
    /\ pc' = After(pc)
    /\ UNCHANGED <<options, db, updated, wlog, exc, last, file, passLog>>

\* lines 847-849
RunListings == pc = "listings" /\ Gated("listings", LISTINGS)

\* lines 847, 850-851
RunLiveListings == pc = "live" /\ Gated("listings", LIVE_LISTINGS)

\* lines 853-860: the same loop after the listings passes
FinalCommit ==
    /\ pc = "commit2"
    /\ \/ /\ env.busy < MaxBusy
          /\ env' = [env EXCEPT !.busy = @ + 1]
          /\ UNCHANGED pc
       \/ /\ env' = [env EXCEPT !.committed = db, !.busy = 0,
                                !.trace = Append(@, "commit")]
          /\ pc' = After(pc)
    /\ UNCHANGED <<options, db, updated, wlog, exc, last, file, passLog>>

\* lines 862-870
Close ==
    /\ pc = "close"
    /\ env' = [env EXCEPT !.prices = TRUE, !.trace = @ \o <<"close", "prices">>]
    /\ pc' = After(pc)
    /\ UNCHANGED <<options, db, updated, wlog, exc, last, file, passLog>>

Next ==
    \/ Start \/ Schema \/ Clean \/ Load \/ Resolve
    \/ RunUpgrades \/ RunShips \/ RunSystems \/ RunStations \/ RunCommodities
    \/ Commit \/ Regenerate \/ RunListings \/ RunLiveListings
    \/ FinalCommit \/ Close

Spec == Init /\ [][Next]_vars

\* run() is one thread that is not cancelled: it takes its next step as long
\* as it has one.  The storage reports the busy/locked condition at most
\* MaxBusy times in a row, so every retry loop has a last turn.
SpecLive == Init /\ [][Next]_vars /\ WF_vars(Next)

----------------------------------------------------------------------------
(* SpecGate: the calls of downloadFile of one run, on any file, in any      *)
(* order.  last keeps the latest call: its arguments, the local copy it    *)
(* found, and what it returned.                                            *)

\* a run calls downloadFile at most MaxCalls times
MaxCalls == 3

\* self.dataPath with every file written at time m
LocalAt(m) == [u \in UrlTails |-> [exists |-> TRUE, mtime |-> m, content |-> DumpFile(u, 1)]]

InitGate ==
    /\ pc = "gate"
    /\ options \in SUBSET {"fallback", "force"}
    /\ \E local \in {NoLocal} \cup {LocalAt(m) : m \in 1 .. Now} :
          env = [given |-> options, local |-> local, calls |-> 0]
    /\ db = EmptyDB
    /\ updated = NoneUpdated
    /\ wlog = {}
    /\ exc = "none"
    /\ last = NoLast
    /\ file = <<>>
    /\ passLog = <<>>

\* one call of downloadFile; an exception ends the run
Download ==
    /\ pc = "gate"
    /\ env.calls < MaxCalls
    /\ \E urlTail \in UrlTails, reachable \in BOOLEAN, served \in BOOLEAN,
          dumpModded \in Times :
          LET got == downloadFile(urlTail, options, env.local, reachable, served,
                                  dumpModded)
          IN  /\ options' = got.options
              /\ env' = [env EXCEPT !.local = got.local, !.calls = @ + 1]
              /\ exc' = got.exc
              /\ last' = [kind |-> "download", urlTail |-> urlTail,
                          reachable |-> reachable, served |-> served,
                          dumpModded |-> dumpModded, had |-> env.local[urlTail],
                          result |-> got.result, url |-> got.url]
              /\ pc' = IF got.exc = "none" THEN "gate" ELSE "crashed"
    /\ UNCHANGED <<db, updated, wlog, file, passLog>>

NextGate == Download

SpecGate == InitGate /\ [][NextGate]_vars

----------------------------------------------------------------------------
(* SpecRetry: one call of execute(), or one of the commit loops of run(),  *)
(* against a storage that may report the busy/locked condition.  env keeps *)
(* the call, the busy reports met in a row, the attempts made and the      *)
(* seconds slept; last keeps what the latest attempt met.                  *)

\* the statements the plugin issues through execute()
Statements ==
    [op : {"SELECT", "INSERT", "UPDATE", "DELETE", "ALTER"}, table : DOMAIN EmptyDB]

\* an execute() of a statement that the storage accepts or that violates a
\* constraint, and a commit
Calls ==
    [caller : {"execute"}, sql : Statements, violates : BOOLEAN]
    \cup {[caller |-> "commit", sql |-> [op |-> "COMMIT", table |-> "none"],
           violates |-> FALSE]}

InitRetry ==
    /\ pc = "try"
    /\ options = {}
    /\ \E call \in Calls : env = [call |-> call, busy |-> 0, tries |-> 0, slept |-> 0]
    /\ db = EmptyDB
    /\ updated = NoneUpdated
    /\ wlog = {}
    /\ exc = "none"
    /\ last = NoLast
    /\ file = <<>>
    /\ passLog = <<>>

\* what the storage may answer to the next attempt
Reports ==
    (IF env.busy < MaxBusy THEN {"OperationalError"} ELSE {})
    \cup {IF env.call.violates THEN "IntegrityError" ELSE "ok"}

\* mutant: no exception is caught
NotRetried(report) == FALSE

\* "except sqlite3.OperationalError:" (lines 97, 840, 858)
Retried(report) == report = "OperationalError"

\* the try block of the loop (lines 91-96, 837-839, 855-857): cur.execute or
\* commit is called once; success leaves the loop, OperationalError goes to
\* the handler, any other exception leaves the function
Attempt ==
    /\ pc = "try"
    /\ \E report \in Reports :
          /\ last' = [kind |-> "attempt", report |-> report]
          /\ env' = [env EXCEPT !.tries = @ + 1,
                                !.busy = IF report = "OperationalError" THEN @ + 1 ELSE @]
          /\ IF report = "ok"
             THEN pc' = "returned" /\ exc' = "none"
             ELSE IF Retried(report)
             THEN pc' = "sleep" /\ exc' = "none"
             ELSE pc' = "raised" /\ exc' = report
    /\ UNCHANGED <<options, db, updated, wlog, file, passLog>>

\* the handler (lines 98-99, 841-842, 859-860): time.sleep(1), then the loop
\* condition "while not success" and the try block again
Sleep ==
    /\ pc = "sleep"
    /\ env' = [env EXCEPT !.slept = @ + 1]
    /\ pc' = "try"
    /\ UNCHANGED <<options, db, updated, wlog, exc, last, file, passLog>>

NextRetry == Attempt \/ Sleep

SpecRetry == InitRetry /\ [][NextRetry]_vars

----------------------------------------------------------------------------
(* Claims about single records (SpecRecord) *)

\* the statements of the latest step that wrote to the table
WritesOn(w, table) == {e \in w : e.table = table}

\* a step that handles a record of the kind
Handles(kind) == last'.kind = kind

\* the key and time of the record a step handles, and the table of its row
RecKey(l) ==
    IF l.kind = "Listing" THEN <<l.rec.station_id, l.rec.commodity_id>> ELSE l.rec.id
RecTime(l) ==
    IF l.kind = "Listing" THEN l.rec.collected_at ELSE l.rec.updated_at
RecTable(l, d) ==
    CASE l.kind = "System" -> d.System
      [] l.kind = "Station" -> d.Station
      [] OTHER -> d.StationItem
RecTableName(l) ==
    CASE l.kind = "System" -> "System"
      [] l.kind = "Station" -> "Station"
      [] OTHER -> "StationItem"

\* the record of the step is not newer than the row stored under its key
StaleStep ==
    /\ last'.kind \in {"System", "Station", "Listing"}
    /\ exc' = "none"
    /\ RecKey(last') \in DOMAIN RecTable(last', db)
    /\ RecTime(last') <= ParseTime(RecTable(last', db)[RecKey(last')].modified)

\* the step wrote nothing to the record's row and did not set its table's flag
RowUntouched ==
    /\ RecTable(last', db')[RecKey(last')] = RecTable(last', db)[RecKey(last')]
    /\ WritesOn(wlog', RecTableName(last')) = {}
    /\ last'.kind # "Listing" => updated'[RecTableName(last')] = updated[RecTableName(last')]

\* the dump file's record has exactly the stored row's time
BulkEqualStep ==
    /\ StaleStep
    /\ last'.kind = "Listing"
    /\ env.listings_file = LISTINGS
    /\ RecTime(last') = ParseTime(db.StationItem[RecKey(last')].modified)

\* the step set from_live to 0 on the record's row and wrote nothing else
OnlyLiveReset ==
    /\ db'.StationItem = [db.StationItem EXCEPT ![RecKey(last')].from_live = 0]
    /\ wlog' = {[op |-> "UPDATE", table |-> "StationItem", key |-> RecKey(last')]}

SameKeyOlder ==
    /\ last.kind = last'.kind
    /\ last'.kind \in {"System", "Station", "Listing"}
    /\ RecKey(last') = RecKey(last)
    /\ exc' = "none"

C2_MonotonicFreshness ==
    [][SameKeyOlder =>
         /\ RecTime(last') < RecTime(last)
              => RecTable(last', db') = RecTable(last', db)
         /\ ( /\ last'.kind = "Station"
              /\ ShipVendorSelected(last.rec, options)
              /\ ShipVendorSelected(last'.rec, options)
              /\ ShipyardTime(last'.rec) < ShipyardTime(last.rec) )
              => db'.ShipVendor = db.ShipVendor
         /\ ( /\ last'.kind = "Station"
              /\ UpgradeVendorSelected(last.rec, options)
              /\ UpgradeVendorSelected(last'.rec, options)
              /\ OutfittingTime(last'.rec) < OutfittingTime(last.rec) )
              => db'.UpgradeVendor = db.UpgradeVendor
      ]_vars

\* the ShipVendor keys the record's selling_ships stand for
ListedShipKeys(d, station) ==
    {<<ShipIdByName(d.Ship, VendorShipName(station.selling_ships[i])), station.id>> :
        i \in 1 .. Len(station.selling_ships)}

ListedModuleKeys(station) ==
    {<<station.selling_modules[i], station.id>> : i \in 1 .. Len(station.selling_modules)}

\* C4 as stated: a station record whose shipyard (outfitting) time is newer than
\* the station's stored vendor time, with the vendor target selected, leaves
\* exactly the listed ships (modules) as the station's vendor rows.  Stated of
\* the records that importStations handles to their end (no exception).
C4_VendorReplacedAsSet ==
    [][(Handles("Station") /\ exc' = "none") =>
         /\ ( /\ "shipvend" \in options
              /\ ShipyardTime(last'.rec) > VendorUpdated(db.ShipVendor, last'.rec.id) )
              => VendorKeys(db'.ShipVendor, last'.rec.id) = ListedShipKeys(db, last'.rec)
         /\ ( /\ "upvend" \in options
              /\ OutfittingTime(last'.rec) > VendorUpdated(db.UpgradeVendor, last'.rec.id) )
              => VendorKeys(db'.UpgradeVendor, last'.rec.id) = ListedModuleKeys(last'.rec)
      ]_vars

\* C10 as stated: no record's IntegrityError ends the pass.
C10_IntegrityErrorNeverAborts == exc # "IntegrityError"

----------------------------------------------------------------------------
(* Claims about a pass run twice (SpecTwice) *)

SecondPassDone == pc = "second" /\ pc' = "done"

\* no record of the file with a shipyard (an outfitter) lists nothing
NoEmptyShipyard(f) ==
    \A i \in 1 .. Len(f) : f[i].has_shipyard => f[i].selling_ships # <<>>
NoEmptyOutfitter(f) ==
    \A i \in 1 .. Len(f) : f[i].has_outfitting => f[i].selling_modules # <<>>

\* the pass wrote nothing to the table and left its flag false
TableUntouched(table) == WritesOn(wlog', table) = {} /\ ~updated'[table]

----------------------------------------------------------------------------
(* Claims about run() (Spec) *)

\* the statement groups up to and including option resolution
Resolving == {"start", "schema", "clean", "load", "resolve"}

\* C5 as stated: a run given no option, or only options among force, fallback
\* and skipvend, has the listings target enabled once lines 655-664 have run.
C5_ListingsByDefault ==
    (pc # "start" /\ env.given \subseteq {"force", "fallback", "skipvend"})
        => "listings" \in options

\* the implications of the claim, on a set of selected options
Closed(opts) ==
    /\ "listings" \in opts => {"item", "station", "system"} \subseteq opts
    /\ "shipvend" \in opts => {"ship", "station", "system"} \subseteq opts
    /\ "upvend" \in opts => {"upgrade", "station", "system"} \subseteq opts
    /\ "station" \in opts => "system" \in opts
    /\ "all" \in opts =>
          /\ {"item", "ship", "station", "system", "upgrade", "listings"} \subseteq opts
          /\ "skipvend" \notin opts => {"shipvend", "upvend"} \subseteq opts

\* C6: once options are resolved the selected set is closed under the target
\* implications: listings => item, station, system; shipvend => ship, station,
\* system; upvend => upgrade, station, system; station => system; all => every
\* target, the vendor targets unless skipvend is set.
C6_ImplicationClosure == pc \notin Resolving => Closed(options)

\* C6 witness: a run given only upvend stands before the first download with
\* upgrade, station and system selected by implication.
C6_Witness ==
    /\ pc = "upgrade"
    /\ env.given = {"upvend"}
    /\ {"upvend", "upgrade", "station", "system"} \subseteq options
    /\ "all" \notin options

VendorTables == {"ShipVendor", "UpgradeVendor"}

\* the step leaves the rows and the flags of both vendor tables as they are
VendorsUnchanged ==
    \A t \in VendorTables : db'[t] = db[t] /\ updated'[t] = updated[t]

\* C7 as stated: in a run with skipvend set, whatever else is in effect, both
\* vendor targets are unselected after option resolution, no vendor row is
\* inserted or deleted, and no vendor flag is set.
C7_SkipvendLeavesVendors ==
    [][("skipvend" \in options /\ pc # "done") =>
         /\ pc' \notin Resolving => options' \cap {"shipvend", "upvend"} = {}
         /\ VendorsUnchanged /\ ~updated'.ShipVendor /\ ~updated'.UpgradeVendor
      ]_vars

\* C7, amended: in a run with skipvend set, both vendor targets are unselected
\* after option resolution, no INSERT or DELETE statement is written to a vendor
\* table and no vendor flag is set; the vendor rows stay as they were, except
\* that the clean step (clean given, or forced by first-run detection) erases
\* the whole database, vendor tables included.
C7_SkipvendLeavesVendorsButClean ==
    [][("skipvend" \in options /\ pc # "done") =>
         /\ pc' \notin Resolving => options' \cap {"shipvend", "upvend"} = {}
         /\ \A t \in VendorTables : WritesOn(wlog', t) = {} /\ ~updated'[t]
         /\ IF pc = "clean" /\ "clean" \in options
            THEN db' = EmptyDB
            ELSE VendorsUnchanged
      ]_vars

\* C7 witness: a run given all and skipvend has ended; its Station pass stored a
\* newer Station row and the station's vendor rows are the ones the run found.
C7_Witness ==
    /\ pc = "done"
    /\ env.given = {"all", "skipvend"}
    /\ STATIONS \in {passLog[i] : i \in 1 .. Len(passLog)}
    /\ updated.Station
    /\ db.ShipVendor = OldDB.ShipVendor
    /\ db.ShipVendor # EmptyTable
    /\ db.UpgradeVendor # EmptyTable

\* the passes in the order of the claim
PassOrder == <<UPGRADES, SHIPS_URL, SYSTEMS, STATIONS, COMMODITIES, LISTINGS, LIVE_LISTINGS>>

Rank(urlTail) == Position(PassOrder, urlTail)

PassesRun == {passLog[i] : i \in 1 .. Len(passLog)}

\* pass a was started, and before any pass b
Precedes(a, b) ==
    \E i \in 1 .. Len(passLog) :
        passLog[i] = a /\ \A j \in 1 .. i : passLog[j] # b

\* C8: the passes that execute in a run occur in the order Upgrade, Ship, System,
\* Station, Item, bulk listings, live listings, whatever options were given; a
\* pass executes exactly when its download reported an update or force is set.
C8_FixedOrder ==
    /\ \A i, j \in 1 .. Len(passLog) : i < j => Rank(passLog[i]) < Rank(passLog[j])
    /\ \A u \in UrlTails :
          u \in PassesRun <=> \/ env.gate[u] = "updated"
                              \/ env.gate[u] = "not updated" /\ "force" \in options

\* C8 witness: a run without force has ended with all seven passes executed.
C8_Witness ==
    /\ pc = "done"
    /\ "force" \notin options
    /\ passLog = PassOrder

\* C9 as stated: when the Station target is selected the System target is too
\* and the System pass has completed before the Station pass begins; the Ship
\* and Upgrade passes precede a Station pass that writes vendor rows.
C9_SystemPassBeforeStationPass ==
    /\ (pc \notin Resolving /\ "station" \in options) => "system" \in options
    /\ STATIONS \in PassesRun =>
          /\ Precedes(SYSTEMS, STATIONS)
          /\ WritesOn(wlog, "ShipVendor") # {} => Precedes(SHIPS_URL, STATIONS)
          /\ WritesOn(wlog, "UpgradeVendor") # {} => Precedes(UPGRADES, STATIONS)

\* the step of the kind is over: its download was asked, and its pass has run
\* if the download reported an update or force is set
StepOver(urlTail) ==
    /\ env.gate[urlTail] # "unasked"
    /\ (env.gate[urlTail] = "updated" \/ "force" \in options) => urlTail \in PassesRun

\* C9, amended: when the Station target is selected the System target is too;
\* when the Station pass begins the System step is over (its download asked, and
\* its pass run if the download reported an update or force is set; otherwise
\* the System pass is skipped), and no System, Ship or Upgrade pass starts after
\* the Station pass; a Station pass that writes ShipVendor rows follows a Ship
\* pass, one that writes UpgradeVendor rows follows an Upgrade step that is over.
C9_SystemStepBeforeStationPass ==
    /\ (pc \notin Resolving /\ "station" \in options) => "system" \in options
    /\ STATIONS \in PassesRun =>
          /\ StepOver(SYSTEMS)
          /\ \A u \in {SYSTEMS, SHIPS_URL, UPGRADES} :
                u \in PassesRun => Precedes(u, STATIONS)
          /\ WritesOn(wlog, "ShipVendor") # {} => Precedes(SHIPS_URL, STATIONS)
          /\ WritesOn(wlog, "UpgradeVendor") # {} => StepOver(UPGRADES)

\* C9 witness: a run has ended whose Station pass rewrote the station's ships
\* after the Ship pass, while the System download reported no update and the
\* System pass was skipped.
C9_Witness ==
    /\ pc = "done"
    /\ env.gate[SYSTEMS] = "not updated"
    /\ SYSTEMS \notin PassesRun
    /\ Precedes(SHIPS_URL, STATIONS)
    /\ \E e \in WritesOn(wlog, "ShipVendor") : e.op = "INSERT"

C31_ImporterWritesFromLiveZero ==
    [][last'.kind = "Listing" =>
         /\ \A e \in wlog' :
               /\ e.table = "StationItem"
               /\ e.key \in DOMAIN db'.StationItem
               /\ db'.StationItem[e.key].from_live = 0
         /\ \A k \in DOMAIN db'.StationItem :
               db'.StationItem[k].from_live # 0 =>
                  /\ k \in DOMAIN db.StationItem
                  /\ db'.StationItem[k] = db.StationItem[k]
      ]_vars

\* C31 witness: a record of listings-live.csv newer than a row the live feed
\* had stored was handled: the row has the record's price and from_live 0.
C31_Witness ==
    /\ last.kind = "Listing"
    /\ last.cmp = "newer"
    /\ env.listings_file = LIVE_LISTINGS
    /\ wlog = {[op |-> "UPDATE", table |-> "StationItem",
                key |-> <<last.rec.station_id, last.rec.commodity_id>>]}
    /\ LET row == db.StationItem[<<last.rec.station_id, last.rec.commodity_id>>]
       IN  /\ row.from_live = 0
           /\ row.demand_price = last.rec.sell_price
           /\ ParseTime(row.modified) = last.rec.collected_at

\* C32: a station step leaves the ShipVendor and UpgradeVendor rows of every
\* other station and the Station rows of every other station as they were,
\* adds no row for another station, and its statements on the vendor tables
\* name the record's station only; so also when an exception ends the step.
C32_VendorReplaceFrame ==
    [][last'.kind = "Station" =>
         LET id == last'.rec.id
         IN  /\ \A t \in {"ShipVendor", "UpgradeVendor"} :
                   /\ \A k \in DOMAIN db[t] :
                         k[2] # id => k \in DOMAIN db'[t] /\ db'[t][k] = db[t][k]
                   /\ \A k \in DOMAIN db'[t] : k[2] # id => k \in DOMAIN db[t]
             /\ \A s \in DOMAIN db.Station \ {id} :
                   s \in DOMAIN db'.Station /\ db'.Station[s] = db.Station[s]
             /\ DOMAIN db'.Station \subseteq DOMAIN db.Station \cup {id}
             /\ \A e \in wlog' :
                   e.table \in {"ShipVendor", "UpgradeVendor"} =>
                      \/ e.op = "DELETE" /\ e.key = id
                      \/ e.op = "INSERT" /\ e.key[2] = id
      ]_vars

\* C32 witness: a record of station 1 replaced the station's ships and modules
\* while station 2 sells the same ship and module: the rows of station 2 and
\* the Station row of station 2 are as the storage started with them.
C32_Witness ==
    /\ last.kind = "Station"
    /\ last.rec.id = 1
    /\ exc = "none"
    /\ [op |-> "DELETE", table |-> "ShipVendor", key |-> 1] \in wlog
    /\ [op |-> "DELETE", table |-> "UpgradeVendor", key |-> 1] \in wlog
    /\ <<1, 1>> \in DOMAIN db.ShipVendor
    /\ <<1, 1>> \in DOMAIN db.UpgradeVendor
    /\ VendorKeys(db.ShipVendor, 2) = {<<1, 2>>}
    /\ VendorKeys(db.UpgradeVendor, 2) = {<<1, 2>>}
    /\ db.Station[2] = BystanderStation[2]

\* C11 as stated: a Station record whose system_id has no row in System does
\* not end the Station pass; the record is handled without an exception.
C11_MissingSystemDoesNotCrash ==
    [][(Handles("Station") /\ last'.rec.system_id \notin DOMAIN db.System)
          => exc' = "none"]_vars

\* C18 as stated: after a pass that started with every flag false, a table's
\* flag is true exactly if the pass wrote a statement to that table.
C18_FlagIffWritten ==
    pc \in {"second", "done"} =>
        \A t \in Tables : updated[t] <=> WritesOn(wlog, t) # {}

\* C24 as stated: after an Item pass every item stored in Item carries its
\* 1-based rank among the items of its category in the order of the name,
\* whatever the category id.
C24_UiOrderDense ==
    (env.kind = "importCommodities" /\ pc \in {"second", "done"}) =>
        \A a \in DOMAIN db.Item :
            db.Item[a].ui_order =
                Cardinality({b \in DOMAIN db.Item :
                                /\ db.Item[b].category_id = db.Item[a].category_id
                                /\ (b = a \/ ItemBefore(db.Item, b, a))})

\* the latest of a set of places in the file
LastOf(places) == CHOOSE i \in places : \A j \in places : j <= i

\* the row under key is the row of the last record of places; with no such
\* record it is as it was
Settled(before, after, key, places, rows) ==
    IF places = {}
    THEN /\ key \in DOMAIN after <=> key \in DOMAIN before
         /\ key \in DOMAIN before => after[key] = before[key]
    ELSE key \in DOMAIN after /\ after[key] = rows[LastOf(places)]

\* the fields of the Item rows that come from the file
MappedItems(Item) ==
    [k \in DOMAIN Item |->
        [name |-> Item[k].name, category_id |-> Item[k].category_id,
         avg_price |-> Item[k].avg_price, fdev_id |-> Item[k].fdev_id]]

\* a pass of one of the kinds without a freshness field is under way
OverwritingPass ==
    /\ pc \in {"first", "second"}
    /\ env.kind \in {"importUpgrades", "importShips", "importCommodities"}
    /\ pc' # pc

----------------------------------------------------------------------------
(* Further claims about run() (Spec) *)

\* the option that selects the kind read from urlTail
OptionOf(urlTail) ==
    CASE urlTail = UPGRADES -> "upgrade"
      [] urlTail = SHIPS_URL -> "ship"
      [] urlTail = SYSTEMS -> "system"
      [] urlTail = STATIONS -> "station"
      [] urlTail = COMMODITIES -> "item"
      [] OTHER -> "listings"

\* downloadFile was called for urlTail and returned
Answered(gate, urlTail) == gate[urlTail] \in {"updated", "not updated"}

\* C12: in a run where clean is set, given or forced by the first-run marker,
\* the clean step leaves an empty database, no prices file and no csv export of
\* the eight tables, before any pass; all and force are set from then on; every
\* kind whose download is answered has its pass run whatever the answer, and a
\* run that ends has run the pass of every selected kind.
C12_CleanRebuild ==
    /\ pc \in Resolving => passLog = <<>>
    /\ ("clean" \in options /\ pc \notin {"start", "schema", "clean"}) =>
          /\ pc \in {"load", "resolve"} =>
                /\ db = EmptyDB
                /\ ~env.prices
                /\ env.exported \cap CleanedTables = {}
          /\ {"all", "force"} \subseteq options
          /\ \A u \in UrlTails : Answered(env.gate, u) => u \in PassesRun
          /\ pc = "done" =>
                \A u \in UrlTails : OptionOf(u) \in options => u \in PassesRun

\* C12 witness: a run that was not given clean found the first-run marker and
\* local files; it has ended with all seven passes run, the System pass although
\* its download reported no update.
C12_Witness ==
    /\ pc = "done"
    /\ "clean" \in options
    /\ "clean" \notin env.given
    /\ env.gate[SYSTEMS] = "not updated"
    /\ passLog = PassOrder

\* C13: a selected kind's pass runs exactly if its download reported an update
\* or force is set; a download that reported no update without force leaves
\* the storage, the Change Tracker and the statements written as they were; no
\* pass runs for a kind whose download was not asked.
C13_ForceGating ==
    [][\A u \in UrlTails :
          /\ u \in PassesRun => env.gate[u] # "unasked"
          /\ (env.gate[u] = "unasked" /\ Answered(env'.gate, u)) =>
                IF env'.gate[u] = "updated" \/ "force" \in options'
                THEN passLog' = Append(passLog, u)
                ELSE /\ passLog' = passLog
                     /\ db' = db /\ wlog' = wlog /\ updated' = updated
      ]_vars

\* C13 witness: a run without force has ended; the stations download reported no
\* update and the Station pass did not run, the systems download reported an
\* update and the System pass ran.
C13_Witness ==
    /\ pc = "done"
    /\ "force" \notin options
    /\ env.gate[STATIONS] = "not updated"
    /\ STATIONS \notin PassesRun
    /\ env.gate[SYSTEMS] = "updated"
    /\ SYSTEMS \in PassesRun

\* C16: with the ship target selected, the call of downloadFile for the ship
\* index, if it returns, has fetched the file and reported an update, whatever
\* the local copy and the fallback option; the Ship pass runs in that step.
C16_ShipIndexAlwaysFetched ==
    [][(pc = "ship" /\ "ship" \in options /\ env'.gate[SHIPS_URL] # "raised") =>
         /\ env'.gate[SHIPS_URL] = "updated"
         /\ \E t \in Times : env'.local = Downloaded(env.local, SHIPS_URL, t)
         /\ passLog' = Append(passLog, SHIPS_URL)
      ]_vars

\* C16 witness: a run without force that found a local copy of the ship index
\* and had the fallback option set has run its Ship pass.
C16_Witness ==
    /\ pc = "system"
    /\ "force" \notin options
    /\ "fallback" \in options
    /\ "clean" \notin options
    /\ env.local[SYSTEMS].exists
    /\ env.gate[SHIPS_URL] = "updated"
    /\ SHIPS_URL \in PassesRun

\* the number of times x occurs in the sequence
Count(seq, x) == Cardinality({i \in 1 .. Len(seq) : seq[i] = x})

\* C19: regenerate() runs at most once in a run and once in a run that ends; it
\* invokes the exporter once for each table whose flag is true and not at all
\* for a table whose flag is false; the exporter is not invoked otherwise.
C19_ExportDispatcher ==
    /\ Count(env.trace, "regenerate") <= 1
    /\ pc = "done" => Count(env.trace, "regenerate") = 1
    /\ \A t \in Tables :
          Count(env.exports, t) =
              IF Count(env.trace, "regenerate") = 1 /\ updated[t] THEN 1 ELSE 0

\* C19 witness: a run has ended in which Station was flagged and exported once
\* and Upgrade was neither flagged nor exported.
C19_Witness ==
    /\ pc = "done"
    /\ updated.Station /\ Count(env.exports, "Station") = 1
    /\ ~updated.Upgrade /\ Count(env.exports, "Upgrade") = 0

EntityPasses == {UPGRADES, SHIPS_URL, SYSTEMS, STATIONS, COMMODITIES}

\* C20: regenerate() runs once in a run that ends; what precedes it is the
\* Upgrade, Ship, System, Station and Item passes that ran and then the commit;
\* no such pass follows it; every listings pass follows it; the bulk listings
\* pass precedes the live listings pass; each listings pass runs exactly if its
\* own download reported an update or force is set.
C20_ExportOrdering ==
    LET tr == env.trace
    IN  /\ Count(tr, "regenerate") <= 1
        /\ pc = "done" => Count(tr, "regenerate") = 1
        /\ \A i \in 1 .. Len(tr) :
              /\ tr[i] = "regenerate" =>
                    /\ i > 1 /\ tr[i - 1] = "commit"
                    /\ \A j \in 1 .. i - 2 : tr[j] \in EntityPasses
                    /\ \A j \in i + 1 .. Len(tr) : tr[j] \notin EntityPasses
              /\ tr[i] \in {LISTINGS, LIVE_LISTINGS} =>
                    \E j \in 1 .. i - 1 : tr[j] = "regenerate"
              /\ tr[i] = LIVE_LISTINGS =>
                    \A j \in i + 1 .. Len(tr) : tr[j] # LISTINGS
        /\ \A u \in {LISTINGS, LIVE_LISTINGS} :
              Count(tr, u) = IF \/ env.gate[u] = "updated"
                                \/ env.gate[u] = "not updated" /\ "force" \in options
                             THEN 1 ELSE 0

\* C20 witness: a run without force has ended; its Station pass ran, then the
\* commit and regenerate(), the bulk listings download reported no update and
\* the live listings pass ran.
C20_Witness ==
    /\ pc = "done"
    /\ "force" \notin options
    /\ STATIONS \in PassesRun
    /\ env.gate[LISTINGS] = "not updated"
    /\ Count(env.trace, LISTINGS) = 0
    /\ Count(env.trace, LIVE_LISTINGS) = 1

\* C21: a run that completes has requested the prices file exactly once;
\* every request is the last thing a run did, directly after the handle was
\* closed, which directly follows the final commit; no pass, commit or export
\* follows it.
C21_TerminalStep ==
    LET tr == env.trace
    IN  /\ pc = "done" => Count(tr, "prices") = 1
        /\ \A i \in 1 .. Len(tr) :
              tr[i] = "prices" =>
                 /\ i = Len(tr)
                 /\ i > 2 /\ tr[i - 1] = "close" /\ tr[i - 2] = "commit"
        /\ Count(tr, "prices") > 0 => pc = "done" /\ env.prices

\* C21 witness: a run has completed in which the Station pass and a listings
\* pass wrote to the storage and the prices file has been requested.
C21_Witness ==
    /\ pc = "done"
    /\ Count(env.trace, "prices") = 1
    /\ STATIONS \in PassesRun
    /\ LISTINGS \in PassesRun
    /\ WritesOn(wlog, "Station") # {}
    /\ WritesOn(wlog, "StationItem") # {}

\* the tables the import function behind urlTail writes to
TablesOf(urlTail) ==
    CASE urlTail = UPGRADES -> {"Upgrade"}
      [] urlTail = SHIPS_URL -> {"Ship"}
      [] urlTail = SYSTEMS -> {"System"}
      [] urlTail = STATIONS -> {"Station", "ShipVendor", "UpgradeVendor"}
      [] urlTail = COMMODITIES -> {"Category", "Item"}
      [] OTHER -> {"StationItem"}

\* the passes of the run that have finished: those that ran, but for the one an
\* exception ended
FinishedPasses ==
    IF pc = "crashed" /\ passLog # <<>> /\ \A u \in UrlTails : env.gate[u] # "raised"
    THEN {passLog[i] : i \in 1 .. Len(passLog) - 1}
    ELSE PassesRun

\* C22 as stated: once a pass has finished its writes are committed: the
\* database file holds the tables of every finished pass as the pass left
\* them, so a crash in a later pass loses none of them.
C22_PerPassCommit ==
    \A u \in FinishedPasses : \A t \in TablesOf(u) : env.committed[t] = db[t]

----------------------------------------------------------------------------
(* Claims about the retry loops (SpecRetry) *)

\* C23: an attempt that meets the busy/locked condition raises nothing: the
\* loop sleeps one second and tries again; an attempt that succeeds returns;
\* an attempt that meets a constraint violation raises IntegrityError to the
\* caller at once, having executed the statement that one time only since the
\* last busy report.  Whatever the call returns is the result of a successful
\* attempt, and OperationalError is never raised.
C23_BusyRetriedNeverSurfaced ==
    [][/\ pc = "try" =>
            /\ last'.report = "OperationalError" =>
                  pc' = "sleep" /\ exc' = "none"
            /\ last'.report = "ok" =>
                  pc' = "returned" /\ exc' = "none"
            /\ last'.report = "IntegrityError" =>
                  /\ pc' = "raised" /\ exc' = "IntegrityError"
                  /\ env.call.caller = "execute"
                  /\ env'.tries = env.busy + 1
       /\ pc = "sleep" => pc' = "try" /\ env'.slept = env.slept + 1
       /\ exc' # "OperationalError"
       /\ pc' = "returned" => last'.report = "ok"
       /\ pc' \in {"try", "returned", "raised"} => env'.slept = env'.busy
      ]_vars

\* C23 witness: an execute() has returned after the storage reported the
\* busy/locked condition twice.
C23_Witness ==
    /\ pc = "returned"
    /\ env.call.caller = "execute"
    /\ env.busy = 2 /\ env.slept = 2 /\ env.tries = 3
    /\ exc = "none"

\* C26 as stated: a file that does not decode ends the pass that reads it and
\* not the run: the run goes on with the statement group that follows.
C26_ParseFailureEndsOnlyItsPass ==
    [][(exc = "none" /\ exc' = "ValueError") => pc' = After(pc)]_vars

\* C27 as stated: wherever a run on the clean path stops between its clean
\* step and its completion, the schema file still holds the first-run marker,
\* so that the next run takes the clean path again.
C27_CleanPathCrashSafe ==
    ("clean" \in options /\ pc \notin {"start", "schema", "clean", "done"}) =>
        env.marker

\* C29 as stated: with a storage that is busy only finitely often in a row,
\* a run whose files are served and decode reaches the terminal step.
C29_RunReachesTerminalStep ==
    <>(pc = "done" \/ exc \in {"URLError", "ValueError"})

\* C30 as stated: a run given exactly one option, a target other than
\* listings, all and clean, on a schema without the first-run marker, does not
\* enable listings: no listings file is asked for, importListings does not
\* run, and the options after resolution are the closure of the given one.
C30_SingleTargetLeavesListingsOff ==
    (/\ Cardinality(env.given) = 1
     /\ env.given \subseteq {"item", "system", "station", "ship", "shipvend",
                             "upgrade", "upvend"}
     /\ "clean" \notin options
     /\ pc \notin {"start", "schema"}) =>
        /\ "listings" \notin options
        /\ env.gate[LISTINGS] = "unasked" /\ env.gate[LIVE_LISTINGS] = "unasked"
        /\ LISTINGS \notin PassesRun /\ LIVE_LISTINGS \notin PassesRun
        /\ pc \notin Resolving => options \ {"fallback"} = Resolved(env.given)

----------------------------------------------------------------------------
(* Claims about downloadFile (SpecGate) *)

\* the step is a call of downloadFile that returned
Returned == last'.kind = "download" /\ exc' = "none"

\* the call found no local copy, or one older than the dump
Stale == ~last'.had.exists \/ last'.had.mtime < last'.dumpModded

\* the call wrote the dump to the local file and touched no other file
Fetched ==
    env'.local = Downloaded(env.local, last'.urlTail, last'.dumpModded)

\* the call returned v and transferred a file exactly if v is true
Reported(v) ==
    /\ last'.result = v
    /\ IF v THEN Fetched ELSE env'.local = env.local

\* C14 as stated: for every source but the ship index, downloadFile fetches the
\* file and returns True exactly when there is no local copy or its mtime is
\* less than the remote Last-Modified; otherwise it returns False and
\* transfers nothing.
C14_FreshnessDecision ==
    [][(Returned /\ last'.urlTail # SHIPS_URL) => Reported(Stale)]_vars

\* C14, amended: the same, for every source but the ship index and but the live
\* listings while the fallback option is set; for the live listings with
\* fallback set downloadFile returns False and transfers nothing, local copy or
\* not.  Stated of the calls that return.
C14_FreshnessDecisionButLiveFallback ==
    [][(Returned /\ last'.urlTail # SHIPS_URL) =>
         IF last'.urlTail = LIVE_LISTINGS /\ "fallback" \in options'
         THEN Reported(FALSE)
         ELSE Reported(Stale)
      ]_vars

\* C14 witness: a call for stations.jsonl found a local copy with exactly the
\* dump's time and returned False.
C14_Witness ==
    /\ last.kind = "download"
    /\ last.urlTail = STATIONS
    /\ last.had.exists
    /\ last.had.mtime = last.dumpModded
    /\ ~last.result
    /\ exc = "none"

\* C15 as stated: with the force option set, downloadFile fetches the file and
\* returns True even if the local copy is not older than the dump.
C15_ForceFetches ==
    [][(Returned /\ "force" \in options) => Reported(TRUE)]_vars

\* C17: the fallback option, once set (given, or set by a failed probe of the
\* mirror), stays set; a failed probe sets it; and while it is set every
\* download of a source other than the ship index is from FALLBACK_URL, also
\* when the mirror answers the probe again.
C17_FallbackOneWay ==
    [][last'.kind = "download" =>
         /\ "fallback" \in options => "fallback" \in options'
         /\ (last'.urlTail # SHIPS_URL /\ ~last'.reachable) => "fallback" \in options'
         /\ ("fallback" \in options' /\ last'.urlTail # SHIPS_URL /\ last'.result)
                => last'.url = "FALLBACK_URL"
         /\ ("fallback" \notin options' /\ last'.urlTail # SHIPS_URL /\ last'.result)
                => last'.url = "BASE_URL"
      ]_vars

\* C17 witness: a run given no fallback option has the option set, and its
\* latest call downloaded stations.jsonl from FALLBACK_URL although the mirror
\* answered the probe.
C17_Witness ==
    /\ last.kind = "download"
    /\ "fallback" \notin env.given
    /\ "fallback" \in options
    /\ last.urlTail = STATIONS
    /\ last.reachable
    /\ last.result
    /\ last.url = "FALLBACK_URL"

====
